---- MODULE Spec2Model ----
(***************************************************************************)
(* A model of the rc201_8 CHIP-8 emulator core: the opcode decoder         *)
(* (oper.rs) and the Emu structure with its Cpu, Mem and Keypad            *)
(* implementations (emu.rs).                                               *)
(*                                                                         *)
(* The machine is the record Emu of the fields of struct Emu.  Every       *)
(* operation of the source is an operator from a machine record to an      *)
(* outcome; the actions apply Emu::recv_opcode to an opcode word.          *)
(*                                                                         *)
(* Rust integer arithmetic depends on the build: with overflow checks      *)
(* (the debug profile) an overflowing +, - or * panics, without them (the  *)
(* release profile) it wraps.  The variable build fixes the profile for a  *)
(* whole behaviour; both are explored.  A panic aborts the call: the       *)
(* writes made before it stay in the machine, nothing is returned.         *)
(***************************************************************************)
EXTENDS Integers, Sequences, FiniteSets, TLC

\* ------------------------------------------------------------ constants

MEM_SIZE == 4096
REG_SIZE == 16
STK_SIZE == 16
KEY_SIZE == 16
PRG_INCR == 2

\* Widths of the integer types of the fields (u8, u16).
U8 == 256
U16 == 65536

Builds == {"debug", "release"}

\* ------------------------------------------------------- bit operations

RECURSIVE BitAnd(_, _)
BitAnd(a, b) ==
    IF a = 0 \/ b = 0 THEN 0
    ELSE ((a % 2) * (b % 2)) + 2 * BitAnd(a \div 2, b \div 2)

RECURSIVE BitOr(_, _)
BitOr(a, b) ==
    IF a = 0 THEN b
    ELSE IF b = 0 THEN a
    ELSE (IF (a % 2) + (b % 2) > 0 THEN 1 ELSE 0) + 2 * BitOr(a \div 2, b \div 2)

RECURSIVE BitXor(_, _)
BitXor(a, b) ==
    IF a = 0 THEN b
    ELSE IF b = 0 THEN a
    ELSE (((a % 2) + (b % 2)) % 2) + 2 * BitXor(a \div 2, b \div 2)

\* `v as i8`: the two's complement reading of a byte.
as_i8(v) == IF v >= 128 THEN v - U8 ELSE v

\* `v as u8` of an i8 value.
as_u8(v) == IF v < 0 THEN v + U8 ELSE v

\* An i8 result wrapped into -128..127 (arithmetic without overflow checks).
wrap_i8(v) == as_i8(v % U8)

\* ------------------------------------------------------------- decoder

\* get_x and get_y panic ("Register overflow!") when the nibble is not below
\* rsize; the value otherwise.
get_x(c, rsize) == (c \div 256) % 16

get_x_panics(c, rsize) == get_x(c, rsize) >= rsize

get_y(c, rsize) == (c \div 16) % 16

get_y_panics(c, rsize) == get_y(c, rsize) >= rsize

get_n(c) == c % 16

get_nn(c) == c % 256

get_nnn(c) == c % 4096

\* An OperCode value: the variant's name and its operands (0 where the
\* variant has none).
OperCode(op, x, y, nn, nnn) == [op |-> op, x |-> x, y |-> y, nn |-> nn, nnn |-> nnn]

\* The decoder's panic, as a value.
RegisterOverflow == OperCode("panic", 0, 0, 0, 0)

Oper_X(op, c, rsize) ==
    IF get_x_panics(c, rsize) THEN RegisterOverflow
    ELSE OperCode(op, get_x(c, rsize), 0, 0, 0)

Oper_XNN(op, c, rsize) ==
    IF get_x_panics(c, rsize) THEN RegisterOverflow
    ELSE OperCode(op, get_x(c, rsize), 0, get_nn(c), 0)

Oper_XY(op, c, rsize) ==
    IF get_x_panics(c, rsize) \/ get_y_panics(c, rsize) THEN RegisterOverflow
    ELSE OperCode(op, get_x(c, rsize), get_y(c, rsize), 0, 0)

Oper_XYN(op, c, rsize) ==
    IF get_x_panics(c, rsize) \/ get_y_panics(c, rsize) THEN RegisterOverflow
    ELSE OperCode(op, get_x(c, rsize), get_y(c, rsize), get_n(c), 0)

Oper_NNN(op, c) == OperCode(op, 0, 0, 0, get_nnn(c))

from_code(c, rsize) ==
    LET a == (c \div 4096) % 16
        b == (c \div 256) % 16
        cc == (c \div 16) % 16
        d == c % 16
    IN CASE a = 0 /\ b = 0 /\ cc = 14 /\ d = 0 -> OperCode("Display00E0", 0, 0, 0, 0)
         [] a = 0 /\ b = 0 /\ cc = 14 /\ d = 14 -> OperCode("Flow00EE", 0, 0, 0, 0)
         [] a = 1 -> Oper_NNN("Flow1NNN", c)
         [] a = 2 -> Oper_NNN("Flow2NNN", c)
         [] a = 3 -> Oper_XNN("Cond3XNN", c, rsize)
         [] a = 4 -> Oper_XNN("Cond4XNN", c, rsize)
         [] a = 5 -> Oper_XY("Cond5XY0", c, rsize)
         [] a = 6 -> Oper_XNN("Const6XNN", c, rsize)
         [] a = 7 -> Oper_XNN("Const7XNN", c, rsize)
         [] a = 8 /\ d = 0 -> Oper_XY("Assign8XY0", c, rsize)
         [] a = 8 /\ d = 1 -> Oper_XY("BitOp8XY1", c, rsize)
         [] a = 8 /\ d = 2 -> Oper_XY("BitOp8XY2", c, rsize)
         [] a = 8 /\ d = 3 -> Oper_XY("BitOp8XY3", c, rsize)
         [] a = 8 /\ d = 4 -> Oper_XY("Math8XY4", c, rsize)
         [] a = 8 /\ d = 5 -> Oper_XY("Math8XY5", c, rsize)
         [] a = 8 /\ d = 6 -> Oper_XY("BitOp8XY6", c, rsize)
         [] a = 8 /\ d = 7 -> Oper_XY("Math8XY7", c, rsize)
         [] a = 8 /\ d = 14 -> Oper_XY("BitOp8XYE", c, rsize)
         [] a = 9 -> Oper_XY("Cond9XY0", c, rsize)
         [] a = 10 -> Oper_NNN("MemANNN", c)
         [] a = 11 -> Oper_NNN("FlowBNNN", c)
         [] a = 12 -> Oper_XNN("RandCXNN", c, rsize)
         [] a = 13 -> Oper_XYN("DisplayDXYN", c, rsize)
         [] a = 14 /\ cc = 9 /\ d = 14 -> Oper_X("KeyOpEX9E", c, rsize)
         [] a = 14 /\ cc = 10 /\ d = 1 -> Oper_X("KeyOpEXA1", c, rsize)
         [] a = 15 /\ cc = 0 /\ d = 7 -> Oper_X("TimerFX07", c, rsize)
         [] a = 15 /\ cc = 0 /\ d = 10 -> Oper_X("KeyOpFX0A", c, rsize)
         [] a = 15 /\ cc = 1 /\ d = 5 -> Oper_X("TimerFX15", c, rsize)
         [] a = 15 /\ cc = 1 /\ d = 8 -> Oper_X("SoundFX18", c, rsize)
         [] a = 15 /\ cc = 1 /\ d = 14 -> Oper_X("MemFX1E", c, rsize)
         [] a = 15 /\ cc = 2 /\ d = 9 -> Oper_X("MemFX29", c, rsize)
         [] a = 15 /\ cc = 3 /\ d = 3 -> Oper_X("BcdFX33", c, rsize)
         [] a = 15 /\ cc = 5 /\ d = 5 -> Oper_X("MemFX55", c, rsize)
         [] a = 15 /\ cc = 6 /\ d = 5 -> Oper_X("MemFX65", c, rsize)
         [] OTHER -> OperCode("Unknown", 0, 0, 0, 0)

\* ------------------------------------------------------------- machine

\* Emu::new: every field zero (the display is the collaborator handed in;
\* dsp records the last call made to it).
NoCall == [call |-> "none", x |-> 0, y |-> 0, height |-> 0]

new ==
    [mem |-> [a \in {} |-> 0],
     reg |-> [i \in 0..(REG_SIZE - 1) |-> 0],
     ind |-> 0,
     cnt |-> 0,
     dtm |-> 0,
     stm |-> 0,
     stk |-> [i \in 0..(STK_SIZE - 1) |-> 0],
     spt |-> 0,
     key |-> [i \in 0..(KEY_SIZE - 1) |-> FALSE],
     dsp |-> NoCall]

\* mem: [u8; MEM_SIZE], kept as the function of its non-zero cells: a cell
\* outside the domain holds 0, and a cell is never stored as 0, so equal
\* memories are equal functions.
MemAt(mm, i) == IF i \in DOMAIN mm THEN mm[i] ELSE 0

MemSet(mm, i, v) ==
    [a \in (IF v = 0 THEN DOMAIN mm \ {i} ELSE DOMAIN mm \cup {i}) |->
        IF a = i THEN v ELSE mm[a]]

\* Result<T, E> of a helper: ok, the value, and the machine after the call.
Res(ok, val, m) == [ok |-> ok, val |-> val, m |-> m]

\* A helper that unwraps inside: panic is "" when it returned, the panic
\* otherwise; acc is the set of stack slots it indexed.
Ret(panic, val, m, acc) == [panic |-> panic, val |-> val, m |-> m, acc |-> acc]

\* What recv_opcode does with a word: the machine afterwards, what the
\* caller gets (Ok, Err with its variant and argument, or a panic) and the
\* stack slots indexed on the way.
OkRes == [kind |-> "Ok", variant |-> "", arg |-> 0]

\* Ok(v) of a function that returns a value.
Returns(v) == [kind |-> "Ok", variant |-> "", arg |-> v]

ErrRes(variant, arg) == [kind |-> "Err", variant |-> variant, arg |-> arg]

PanicRes(why) == [kind |-> "Panic", variant |-> why, arg |-> 0]

NoRes == [kind |-> "None", variant |-> "", arg |-> 0]

Outcome(m, res, acc) == [m |-> m, res |-> res, acc |-> acc]

Okay(m) == Outcome(m, OkRes, {})

Panic(m, why) == Outcome(m, PanicRes(why), {})

\* ----------------------------------------------------------------- Mem

max_size == MEM_SIZE

validate_index(index) == index < max_size

mem_get(m, index) ==
    IF validate_index(index) THEN Res(TRUE, MemAt(m.mem, index), m)
    ELSE Res(FALSE, index, m)

mem_put(m, index, value) ==
    IF validate_index(index)
    THEN Res(TRUE, 0, [m EXCEPT !.mem = MemSet(m.mem, index, value)])
    ELSE Res(FALSE, index, m)

\* A bound of a range (std::ops::Bound) and a range as its two bounds:
\* s..e is Included(s), Excluded(e); ..e is Unbounded, Excluded(e); s..=e is
\* Included(s), Included(e).
Included(i) == [kind |-> "Included", i |-> i]

Excluded(i) == [kind |-> "Excluded", i |-> i]

Unbounded == [kind |-> "Unbounded", i |-> 0]

Range(sb, eb) == [start_bound |-> sb, end_bound |-> eb]

\* usize subtraction without overflow checks wraps to the top of the usize
\* range, kept as in wrapping_sub_usize below.
usize_dec(v) == IF v >= 1 THEN v - 1 ELSE 2147483647

\* usize addition of 1 without overflow checks wraps from the top of the
\* usize range to 0.
usize_inc(v) == IF v >= 2147483647 THEN 0 ELSE v + 1

\* MemError::new(AccessRangeViolation(a, b)) stores (a, b - 1): a usize
\* subtraction that overflows for b = 0.
MemError_new_range(b, start, end) ==
    IF end < 1 /\ b = "debug" THEN PanicRes("overflow")
    ELSE ErrRes("AccessRangeViolation", <<start, usize_dec(end)>>)

\* Ok((start, end)), the error, or a panic: of `i + 1` for an excluded
\* start at the top of the usize range, or of `end - 1`, which is evaluated
\* only when start is a valid index.
range_get_start_end(b, range) ==
    LET start == CASE range.start_bound.kind = "Included" -> range.start_bound.i
                   [] range.start_bound.kind = "Excluded" -> usize_inc(range.start_bound.i)
                   [] range.start_bound.kind = "Unbounded" -> 0
        end == CASE range.end_bound.kind = "Included" -> range.end_bound.i
                 [] range.end_bound.kind = "Excluded" -> range.end_bound.i
                 [] range.end_bound.kind = "Unbounded" -> max_size
    IN IF /\ range.start_bound.kind = "Excluded"
          /\ usize_inc(range.start_bound.i) = 0
          /\ b = "debug"
       THEN PanicRes("overflow")
       ELSE IF ~validate_index(start) THEN MemError_new_range(b, start, end)
       ELSE IF end < 1 /\ b = "debug" THEN PanicRes("overflow")
       ELSE IF validate_index(usize_dec(end))
            THEN [kind |-> "Ok", variant |-> "", arg |-> <<start, end>>]
            ELSE MemError_new_range(b, start, end)

validate_range(b, range) ==
    LET r == range_get_start_end(b, range)
    IN CASE r.kind = "Ok" -> [r EXCEPT !.arg = r.arg[2] > r.arg[1]]
         [] r.kind = "Err" -> [kind |-> "Ok", variant |-> "", arg |-> FALSE]
         [] OTHER -> r

\* &self.mem[range]: the slice indexing of the standard library takes the
\* cells from the start bound to the end bound as the range type means them
\* (an Included end is part of the slice), and panics when the range is
\* inverted or ends beyond the array, or when a bound + 1 is beyond the
\* usize range (a checked addition in both builds).
slice_index(m, range) ==
    LET lo == CASE range.start_bound.kind = "Included" -> range.start_bound.i
                [] range.start_bound.kind = "Excluded" -> range.start_bound.i + 1
                [] range.start_bound.kind = "Unbounded" -> 0
        hi == CASE range.end_bound.kind = "Included" -> range.end_bound.i + 1
                [] range.end_bound.kind = "Excluded" -> range.end_bound.i
                [] range.end_bound.kind = "Unbounded" -> MEM_SIZE
    IN IF \/ range.start_bound.kind = "Excluded" /\ usize_inc(range.start_bound.i) = 0
          \/ range.end_bound.kind = "Included" /\ usize_inc(range.end_bound.i) = 0
       THEN PanicRes("slice index")
       ELSE IF lo > hi \/ hi > MEM_SIZE THEN PanicRes("slice index")
       ELSE [kind |-> "Ok", variant |-> "",
             arg |-> [j \in 1..(hi - lo) |-> MemAt(m.mem, lo + j - 1)]]

mem_read(m, b, range) ==
    LET r == range_get_start_end(b, range)
    IN IF r.kind = "Ok" THEN Outcome(m, slice_index(m, range), {})
       ELSE Outcome(m, r, {})

\* for (i, v) in slice.iter().enumerate(): mem[start + i] = v, from the
\* j-th byte on; an index outside the array panics.
RECURSIVE WriteSlice(_, _, _, _)
WriteSlice(m, start, slice, j) ==
    IF j > Len(slice) THEN Okay(m)
    ELSE IF start + j - 1 >= MEM_SIZE THEN Panic(m, "index out of bounds")
    ELSE WriteSlice([m EXCEPT !.mem = MemSet(m.mem, start + j - 1, slice[j])],
                    start, slice, j + 1)

mem_write(m, b, range, slice) ==
    LET r == range_get_start_end(b, range)
    IN IF r.kind = "Ok" THEN WriteSlice(m, r.arg[1], slice, 1)
       ELSE Outcome(m, r, {})

\* -------------------------------------------------------------- Keypad

Keys == {"K1", "K2", "K3", "K4", "K5", "K6", "K7", "K8", "K9",
         "KA", "KB", "KC", "KD", "KE", "KF", "Unknown"}

\* key_from_u8 reading the low nibble only: 0x11 is K1.
key_from_u8_low_nibble(k) ==
    LET n == k % 16
    IN IF n = 0 THEN "Unknown"
       ELSE <<"K1", "K2", "K3", "K4", "K5", "K6", "K7", "K8", "K9",
              "KA", "KB", "KC", "KD", "KE", "KF">>[n]

key_from_u8(k) ==
    CASE k = 1 -> "K1" [] k = 2 -> "K2" [] k = 3 -> "K3" [] k = 4 -> "K4"
      [] k = 5 -> "K5" [] k = 6 -> "K6" [] k = 7 -> "K7" [] k = 8 -> "K8"
      [] k = 9 -> "K9" [] k = 10 -> "KA" [] k = 11 -> "KB" [] k = 12 -> "KC"
      [] k = 13 -> "KD" [] k = 14 -> "KE" [] k = 15 -> "KF"
      [] OTHER -> "Unknown"

key_to_u8(k) ==
    CASE k = "K1" -> 1 [] k = "K2" -> 2 [] k = "K3" -> 3 [] k = "K4" -> 4
      [] k = "K5" -> 5 [] k = "K6" -> 6 [] k = "K7" -> 7 [] k = "K8" -> 8
      [] k = "K9" -> 9 [] k = "KA" -> 10 [] k = "KB" -> 11 [] k = "KC" -> 12
      [] k = "KD" -> 13 [] k = "KE" -> 14 [] k = "KF" -> 15
      [] k = "Unknown" -> 0

\* Option<usize>: -1 is None.
key_to_index(k) ==
    CASE k = "K1" -> 0 [] k = "K2" -> 1 [] k = "K3" -> 2 [] k = "K4" -> 3
      [] k = "K5" -> 4 [] k = "K6" -> 5 [] k = "K7" -> 6 [] k = "K8" -> 7
      [] k = "K9" -> 8 [] k = "KA" -> 9 [] k = "KB" -> 10 [] k = "KC" -> 11
      [] k = "KD" -> 12 [] k = "KE" -> 13 [] k = "KF" -> 14
      [] k = "Unknown" -> -1

\* key_pressed reading the latch at the key's number instead of its index.
key_pressed_by_number(m, k) ==
    LET i == key_to_index(k) IN IF i >= 0 THEN m.key[key_to_u8(k)] ELSE FALSE

key_pressed(m, k) ==
    LET i == key_to_index(k) IN IF i >= 0 THEN m.key[i] ELSE FALSE

\* The keys in the order any_key_pressed tries them.
KeyOrder == <<"K1", "K2", "K3", "K4", "K5", "K6", "K7", "K8", "K9",
              "KA", "KB", "KC", "KD", "KE", "KF">>

\* Option<Key>: "None" when no key of KeyOrder is pressed, the first one
\* pressed otherwise.
any_key_pressed(m) ==
    LET hit == {j \in 1..Len(KeyOrder) : key_pressed(m, KeyOrder[j])}
    IN IF hit = {} THEN "None"
       ELSE KeyOrder[CHOOSE j \in hit : \A h \in hit : j <= h]

\* ----------------------------------------------------------------- Cpu

\* skip_next_instruction advancing by one byte instead of PRG_INCR.
skip_next_instruction_one_byte(m, b) ==
    IF m.cnt + 1 >= U16
    THEN IF b = "debug" THEN Ret("overflow", 0, m, {})
         ELSE Ret("", 0, [m EXCEPT !.cnt = (m.cnt + 1) % U16], {})
    ELSE Ret("", 0, [m EXCEPT !.cnt = m.cnt + 1], {})

skip_next_instruction(m, b) ==
    IF m.cnt + PRG_INCR >= U16
    THEN IF b = "debug" THEN Ret("overflow", 0, m, {})
         ELSE Ret("", 0, [m EXCEPT !.cnt = (m.cnt + PRG_INCR) % U16], {})
    ELSE Ret("", 0, [m EXCEPT !.cnt = m.cnt + PRG_INCR], {})

validate_register_index(index) == index < REG_SIZE

reg_get(m, index) ==
    IF validate_register_index(index) THEN Res(TRUE, m.reg[index], m)
    ELSE Res(FALSE, index, m)

reg_put(m, index, value) ==
    IF validate_register_index(index)
    THEN Res(TRUE, 0, [m EXCEPT !.reg[index] = value])
    ELSE Res(FALSE, index, m)

reg_put_vf(m, value) == [m EXCEPT !.reg[REG_SIZE - 1] = value]

spt_get(m) == m.spt

spt_validate_lax(spt) == Res(spt <= STK_SIZE, spt, 0)

spt_validate(spt) == Res(spt < STK_SIZE, spt, 0)

\* usize subtraction without overflow checks wraps to the top of the usize
\* range.  2^64 - 1 is beyond TLC's integers; the wrapped value is kept as
\* 2^31 - 1 - (deficit - 1), which like it lies above every size of the code.
wrapping_sub_usize(a, d) == IF a >= d THEN a - d ELSE 2147483647 - (d - a - 1)

spt_inc(m) ==
    LET v == spt_validate(spt_get(m) + 1)
    IN IF v.ok THEN Ret("", v.val, [m EXCEPT !.spt = v.val], {})
       ELSE Ret("StackOverflow", 0, m, {})

spt_dec(m, b) ==
    IF spt_get(m) < 1 /\ b = "debug" THEN Ret("overflow", 0, m, {})
    ELSE LET v == spt_validate(wrapping_sub_usize(spt_get(m), 1))
         IN IF v.ok THEN Ret("", v.val, [m EXCEPT !.spt = v.val], {})
            ELSE Ret("StackOverflow", 0, m, {})

\* stk[i]: an index outside the array panics.
stk_get(m) ==
    LET i == spt_get(m)
    IN IF i < STK_SIZE THEN Ret("", m.stk[i], m, {i})
       ELSE Ret("index out of bounds", 0, m, {i})

stk_pop(m, b) ==
    LET g == stk_get(m)
    IN IF g.panic # "" THEN g
       ELSE LET d == spt_dec(m, b)
            IN IF d.panic # "" THEN Ret(d.panic, 0, d.m, g.acc)
               ELSE Ret("", g.val, d.m, g.acc)

stk_push(m, address) ==
    LET r == spt_inc(m)
    IN IF r.panic # "" THEN r
       ELSE IF r.val < STK_SIZE
            THEN Ret("", 0, [r.m EXCEPT !.stk[r.val] = address], {r.val})
            ELSE Ret("index out of bounds", 0, r.m, {r.val})

\* -------------------------------------------------- recv_opcode's arms
\* One operator per arm of the match in recv_opcode.  m is the machine, b
\* the build; an unwrap of an Err is a panic that leaves the machine as the
\* arm had it at that point.

\* The arm ends with what a helper left: Ok(()) or its panic.
Finish(r) == Outcome(r.m, IF r.panic = "" THEN OkRes ELSE PanicRes(r.panic), r.acc)

BadReg(m) == Panic(m, "InvalidRegisterIndex")

BadMem(m) == Panic(m, "AccessViolation")

Display00E0(m) == Okay([m EXCEPT !.dsp = [call |-> "clear", x |-> 0, y |-> 0, height |-> 0]])

Flow00EE(m, b) ==
    LET p == stk_pop(m, b)
    IN IF p.panic # "" THEN Finish(p)
       ELSE Outcome([p.m EXCEPT !.cnt = p.val], OkRes, p.acc)

Flow1NNN(m, v) == Okay([m EXCEPT !.cnt = v])

Flow2NNN(m, n) ==
    LET p == stk_push(m, n)
    IN IF p.panic # "" THEN Finish(p)
       ELSE Outcome([p.m EXCEPT !.cnt = n], OkRes, p.acc)

Cond3XNN(m, b, x, n) ==
    LET gx == reg_get(m, x)
    IN IF ~gx.ok THEN BadReg(m)
       ELSE IF gx.val = n THEN Finish(skip_next_instruction(m, b)) ELSE Okay(m)

Cond4XNN(m, b, x, n) ==
    LET gx == reg_get(m, x)
    IN IF ~gx.ok THEN BadReg(m)
       ELSE IF gx.val # n THEN Finish(skip_next_instruction(m, b)) ELSE Okay(m)

Cond5XY0(m, b, x, y) ==
    LET gx == reg_get(m, x)
        gy == reg_get(m, y)
    IN IF ~gx.ok \/ ~gy.ok THEN BadReg(m)
       ELSE IF gx.val = gy.val THEN Finish(skip_next_instruction(m, b)) ELSE Okay(m)

Const6XNN(m, x, v) ==
    LET p == reg_put(m, x, v)
    IN IF p.ok THEN Okay(p.m) ELSE BadReg(m)

Const7XNN(m, b, x, v) ==
    LET gx == reg_get(m, x)
    IN IF ~gx.ok THEN BadReg(m)
       ELSE IF gx.val + v >= U8 /\ b = "debug" THEN Panic(m, "overflow")
       ELSE LET p == reg_put(m, x, (gx.val + v) % U8)
            IN IF p.ok THEN Okay(p.m) ELSE BadReg(m)

Assign8XY0(m, x, y) ==
    LET gy == reg_get(m, y)
    IN IF ~gy.ok THEN BadReg(m)
       ELSE LET p == reg_put(m, x, gy.val)
            IN IF p.ok THEN Okay(p.m) ELSE BadReg(m)

BitOp8XY1(m, x, y) ==
    LET gx == reg_get(m, x)
        gy == reg_get(m, y)
    IN IF ~gx.ok \/ ~gy.ok THEN BadReg(m)
       ELSE LET p == reg_put(m, x, BitOr(gx.val, gy.val))
            IN IF p.ok THEN Okay(p.m) ELSE BadReg(m)

BitOp8XY2(m, x, y) ==
    LET gx == reg_get(m, x)
        gy == reg_get(m, y)
    IN IF ~gx.ok \/ ~gy.ok THEN BadReg(m)
       ELSE LET p == reg_put(m, x, BitAnd(gx.val, gy.val))
            IN IF p.ok THEN Okay(p.m) ELSE BadReg(m)

BitOp8XY3(m, x, y) ==
    LET gx == reg_get(m, x)
        gy == reg_get(m, y)
    IN IF ~gx.ok \/ ~gy.ok THEN BadReg(m)
       ELSE LET p == reg_put(m, x, BitXor(gx.val, gy.val))
            IN IF p.ok THEN Okay(p.m) ELSE BadReg(m)

\* sum is a u8: `vx + vy` overflows at 256 (a panic, or the wrapped byte),
\* and the flag is computed from the u8 sum widened to u16.
Math8XY4(m, b, x, y) ==
    LET gx == reg_get(m, x)
        gy == reg_get(m, y)
    IN IF ~gx.ok \/ ~gy.ok THEN BadReg(m)
       ELSE IF gx.val + gy.val >= U8 /\ b = "debug" THEN Panic(m, "overflow")
       ELSE LET sum == (gx.val + gy.val) % U8
                vf == IF sum > 255 THEN 1 ELSE 0
                m1 == reg_put_vf(m, vf)
                p == reg_put(m1, x, sum)
            IN IF p.ok THEN Okay(p.m) ELSE BadReg(m1)

\* dif is an i8: `vx as i8 - vy as i8` overflows outside -128..127.
Math8XY5(m, b, x, y) ==
    LET gx == reg_get(m, x)
        gy == reg_get(m, y)
    IN IF ~gx.ok \/ ~gy.ok THEN BadReg(m)
       ELSE LET exact == as_i8(gx.val) - as_i8(gy.val)
            IN IF (exact < -128 \/ exact > 127) /\ b = "debug" THEN Panic(m, "overflow")
               ELSE LET dif == wrap_i8(exact)
                        p == reg_put(m, x, as_u8(dif))
                        vf == IF dif < 0 THEN 1 ELSE 0
                    IN IF p.ok THEN Okay(reg_put_vf(p.m, vf)) ELSE BadReg(m)

BitOp8XY6(m, x) ==
    LET gx == reg_get(m, x)
    IN IF ~gx.ok THEN BadReg(m)
       ELSE LET vf == BitAnd(gx.val, 1)
                m1 == reg_put_vf(m, vf)
                p == reg_put(m1, x, gx.val \div 2)
            IN IF p.ok THEN Okay(p.m) ELSE BadReg(m1)

Math8XY7(m, b, x, y) ==
    LET gx == reg_get(m, x)
        gy == reg_get(m, y)
    IN IF ~gx.ok \/ ~gy.ok THEN BadReg(m)
       ELSE LET exact == as_i8(gy.val) - as_i8(gx.val)
            IN IF (exact < -128 \/ exact > 127) /\ b = "debug" THEN Panic(m, "overflow")
               ELSE LET dif == wrap_i8(exact)
                        p == reg_put(m, x, as_u8(dif))
                        vf == IF dif < 0 THEN 1 ELSE 0
                    IN IF p.ok THEN Okay(reg_put_vf(p.m, vf)) ELSE BadReg(m)

\* `vx <<= 1` on a u8 drops the top bit in every build.
BitOp8XYE(m, x) ==
    LET gx == reg_get(m, x)
    IN IF ~gx.ok THEN BadReg(m)
       ELSE LET vf == BitAnd(gx.val, 128)
                m1 == reg_put_vf(m, vf)
                p == reg_put(m1, x, (gx.val * 2) % U8)
            IN IF p.ok THEN Okay(p.m) ELSE BadReg(m1)

Cond9XY0(m, b, x, y) ==
    LET gx == reg_get(m, x)
        gy == reg_get(m, y)
    IN IF ~gx.ok \/ ~gy.ok THEN BadReg(m)
       ELSE IF gx.val # gy.val THEN Finish(skip_next_instruction(m, b)) ELSE Okay(m)

MemANNN(m, v) == Okay([m EXCEPT !.ind = v])

\* v <= 0xFFF and v0 <= 0xFF: the u16 sum cannot overflow.
FlowBNNN(m, v) ==
    LET g0 == reg_get(m, 0)
    IN IF ~g0.ok THEN BadReg(m) ELSE Okay([m EXCEPT !.cnt = v + g0.val])

\* r is the byte drawn by gen_range(0, 255): 0..254.
RandCXNN(m, x, v, r) ==
    LET p == reg_put(m, x, BitAnd(r, v))
    IN IF p.ok THEN Okay(p.m) ELSE BadReg(m)

\* drawn is what the display's draw returns.
DisplayDXYN(m, x, y, height, drawn) ==
    LET m1 == [m EXCEPT !.dsp = [call |-> "draw", x |-> x, y |-> y, height |-> height]]
        vf == IF drawn = "Collision" THEN 1 ELSE 0
    IN Okay(reg_put_vf(m1, vf))

KeyOpEX9E(m, b, x) ==
    LET gx == reg_get(m, x)
    IN IF ~gx.ok THEN BadReg(m)
       ELSE IF key_pressed(m, key_from_u8(gx.val))
            THEN Finish(skip_next_instruction(m, b)) ELSE Okay(m)

KeyOpEXA1(m, b, x) ==
    LET gx == reg_get(m, x)
    IN IF ~gx.ok THEN BadReg(m)
       ELSE IF ~key_pressed(m, key_from_u8(gx.val))
            THEN Finish(skip_next_instruction(m, b)) ELSE Okay(m)

TimerFX07(m, x) ==
    LET p == reg_put(m, x, m.dtm)
    IN IF p.ok THEN Okay(p.m) ELSE BadReg(m)

\* `self.cnt - PRG_INCR` on a u16 overflows below 2.
KeyOpFX0A(m, b, x) ==
    LET k == any_key_pressed(m)
    IN IF k # "None"
       THEN LET p == reg_put(m, x, key_to_u8(k))
            IN IF p.ok THEN Okay(p.m) ELSE BadReg(m)
       ELSE IF m.cnt < PRG_INCR
            THEN IF b = "debug" THEN Panic(m, "overflow")
                 ELSE Okay([m EXCEPT !.cnt = m.cnt - PRG_INCR + U16])
            ELSE Okay([m EXCEPT !.cnt = m.cnt - PRG_INCR])

TimerFX15(m, x) ==
    LET gx == reg_get(m, x)
    IN IF ~gx.ok THEN BadReg(m) ELSE Okay([m EXCEPT !.dtm = gx.val])

SoundFX18(m, x) ==
    LET gx == reg_get(m, x)
    IN IF ~gx.ok THEN BadReg(m) ELSE Okay([m EXCEPT !.stm = gx.val])

\* ind is a usize: the sum stays far below its range.
MemFX1E(m, x) ==
    LET gx == reg_get(m, x)
    IN IF ~gx.ok THEN BadReg(m) ELSE Okay([m EXCEPT !.ind = m.ind + gx.val])

MemFX29(m, x) ==
    LET gx == reg_get(m, x)
    IN IF ~gx.ok THEN BadReg(m) ELSE Okay([m EXCEPT !.ind = gx.val * 5])

\* BcdFX33 with the tens digit left unreduced: (vx / 10) instead of
\* (vx / 10) % 10.
BcdFX33_tens_unreduced(m, x) ==
    LET gx == reg_get(m, x)
    IN IF ~gx.ok THEN BadReg(m)
       ELSE LET vx == gx.val
                p1 == mem_put(m, m.ind, vx \div 100)
            IN IF ~p1.ok THEN BadMem(m)
               ELSE LET p2 == mem_put(p1.m, m.ind + 1, vx \div 10)
                    IN IF ~p2.ok THEN BadMem(p1.m)
                       ELSE LET p3 == mem_put(p2.m, m.ind + 2, (vx % 100) % 10)
                            IN IF ~p3.ok THEN BadMem(p2.m) ELSE Okay(p3.m)

BcdFX33(m, x) ==
    LET gx == reg_get(m, x)
    IN IF ~gx.ok THEN BadReg(m)
       ELSE LET vx == gx.val
                p1 == mem_put(m, m.ind, vx \div 100)
            IN IF ~p1.ok THEN BadMem(m)
               ELSE LET p2 == mem_put(p1.m, m.ind + 1, (vx \div 10) % 10)
                    IN IF ~p2.ok THEN BadMem(p1.m)
                       ELSE LET p3 == mem_put(p2.m, m.ind + 2, (vx % 100) % 10)
                            IN IF ~p3.ok THEN BadMem(p2.m) ELSE Okay(p3.m)

\* for i in i..mi: mem[ind + i] = reg[i]
RECURSIVE StoreRegs(_, _, _)
StoreRegs(m, i, mi) ==
    IF i >= mi THEN Okay(m)
    ELSE LET g == reg_get(m, i)
         IN IF ~g.ok THEN BadReg(m)
            ELSE LET p == mem_put(m, m.ind + i, g.val)
                 IN IF ~p.ok THEN BadMem(m) ELSE StoreRegs(p.m, i + 1, mi)

\* The bound of the loop is the value of V[X] plus one, a u8 sum.
MemFX55(m, b, x) ==
    LET gx == reg_get(m, x)
    IN IF ~gx.ok THEN BadReg(m)
       ELSE IF gx.val + 1 >= U8 /\ b = "debug" THEN Panic(m, "overflow")
       ELSE StoreRegs(m, 0, (gx.val + 1) % U8)

\* for i in i..mi: reg[i] = mem[ind + i]
RECURSIVE LoadRegs(_, _, _)
LoadRegs(m, i, mi) ==
    IF i >= mi THEN Okay(m)
    ELSE LET g == mem_get(m, m.ind + i)
         IN IF ~g.ok THEN BadMem(m)
            ELSE LET p == reg_put(m, i, g.val)
                 IN IF ~p.ok THEN BadReg(m) ELSE LoadRegs(p.m, i + 1, mi)

MemFX65(m, b, x) ==
    LET gx == reg_get(m, x)
    IN IF ~gx.ok THEN BadReg(m)
       ELSE IF gx.val + 1 >= U8 /\ b = "debug" THEN Panic(m, "overflow")
       ELSE LoadRegs(m, 0, (gx.val + 1) % U8)

\* Unknown with the word left out of the error.
Unknown_word_dropped(m, c) == Outcome(m, ErrRes("InvalidOperationCode", 0), {})

Unknown(m, c) == Outcome(m, ErrRes("InvalidOperationCode", c), {})

\* env: what the collaborators answer during the call (the byte the random
\* generator draws, the result of the display's draw).
\* The match of recv_opcode on the decoded word o.
dispatch(m, b, c, env, o) ==
    CASE o.op = "Display00E0" -> Display00E0(m)
      [] o.op = "Flow00EE" -> Flow00EE(m, b)
      [] o.op = "Flow1NNN" -> Flow1NNN(m, o.nnn)
      [] o.op = "Flow2NNN" -> Flow2NNN(m, o.nnn)
      [] o.op = "Cond3XNN" -> Cond3XNN(m, b, o.x, o.nn)
      [] o.op = "Cond4XNN" -> Cond4XNN(m, b, o.x, o.nn)
      [] o.op = "Cond5XY0" -> Cond5XY0(m, b, o.x, o.y)
      [] o.op = "Const6XNN" -> Const6XNN(m, o.x, o.nn)
      [] o.op = "Const7XNN" -> Const7XNN(m, b, o.x, o.nn)
      [] o.op = "Assign8XY0" -> Assign8XY0(m, o.x, o.y)
      [] o.op = "BitOp8XY1" -> BitOp8XY1(m, o.x, o.y)
      [] o.op = "BitOp8XY2" -> BitOp8XY2(m, o.x, o.y)
      [] o.op = "BitOp8XY3" -> BitOp8XY3(m, o.x, o.y)
      [] o.op = "Math8XY4" -> Math8XY4(m, b, o.x, o.y)
      [] o.op = "Math8XY5" -> Math8XY5(m, b, o.x, o.y)
      [] o.op = "BitOp8XY6" -> BitOp8XY6(m, o.x)
      [] o.op = "Math8XY7" -> Math8XY7(m, b, o.x, o.y)
      [] o.op = "BitOp8XYE" -> BitOp8XYE(m, o.x)
      [] o.op = "Cond9XY0" -> Cond9XY0(m, b, o.x, o.y)
      [] o.op = "MemANNN" -> MemANNN(m, o.nnn)
      [] o.op = "FlowBNNN" -> FlowBNNN(m, o.nnn)
      [] o.op = "RandCXNN" -> RandCXNN(m, o.x, o.nn, env.rnd)
      [] o.op = "DisplayDXYN" -> DisplayDXYN(m, o.x, o.y, o.nn, env.drawn)
      [] o.op = "KeyOpEX9E" -> KeyOpEX9E(m, b, o.x)
      [] o.op = "KeyOpEXA1" -> KeyOpEXA1(m, b, o.x)
      [] o.op = "TimerFX07" -> TimerFX07(m, o.x)
      [] o.op = "KeyOpFX0A" -> KeyOpFX0A(m, b, o.x)
      [] o.op = "TimerFX15" -> TimerFX15(m, o.x)
      [] o.op = "SoundFX18" -> SoundFX18(m, o.x)
      [] o.op = "MemFX1E" -> MemFX1E(m, o.x)
      [] o.op = "MemFX29" -> MemFX29(m, o.x)
      [] o.op = "BcdFX33" -> BcdFX33(m, o.x)
      [] o.op = "MemFX55" -> MemFX55(m, b, o.x)
      [] o.op = "MemFX65" -> MemFX65(m, b, o.x)
      [] o.op = "Unknown" -> Unknown(m, c)
      [] OTHER -> Panic(m, "Register overflow!")

recv_opcode(m, b, c, env) == dispatch(m, b, c, env, from_code(c, REG_SIZE))

\* --------------------------------------------------------------- state

VARIABLES
    mem,    \* Emu.mem, as the function of its non-zero cells
    reg,    \* Emu.reg
    ind,    \* Emu.ind
    cnt,    \* Emu.cnt
    dtm,    \* Emu.dtm
    stm,    \* Emu.stm
    stk,    \* Emu.stk
    spt,    \* Emu.spt
    key,    \* Emu.key
    dsp,    \* the last call made to Emu.dsp
    build,  \* the build profile: overflow checks on ("debug") or off
    res,    \* what the last call gave its caller
    code,   \* the word of the last call when it was a recv_opcode, -1
            \* before the first call and after a call of another function
    old,    \* the machine before the last call
    called, \* if the call before the last one was a CALL that returned Ok:
            \* its word and the PC and SP it found; code -1 otherwise
    acc,    \* the stack slots the last call indexed
    others, \* the number of calls so far other than CALL and RET
    call,   \* the last call: the function and its arguments
    saved   \* the word of the last FX55 that returned Ok and the registers
            \* it found; code -1 before the first

vars == <<mem, reg, ind, cnt, dtm, stm, stk, spt, key, dsp,
          build, res, code, old, called, acc, others, call, saved>>

\* The machine as a record of its fields.
Emu ==
    [mem |-> mem, reg |-> reg, ind |-> ind, cnt |-> cnt, dtm |-> dtm,
     stm |-> stm, stk |-> stk, spt |-> spt, key |-> key, dsp |-> dsp]

NotCalled == [code |-> -1, cnt |-> 0, spt |-> 0]

NoneYet == [fn |-> "none", args |-> <<>>]

NotSaved == [code |-> -1, reg |-> new.reg]

\* The machine is m, nothing has been executed yet.
Start(m) ==
    /\ mem = m.mem /\ reg = m.reg /\ ind = m.ind /\ cnt = m.cnt
    /\ dtm = m.dtm /\ stm = m.stm /\ stk = m.stk /\ spt = m.spt
    /\ key = m.key /\ dsp = m.dsp
    /\ build \in Builds
    /\ res = NoRes
    /\ code = -1
    /\ old = m
    /\ called = NotCalled
    /\ acc = {}
    /\ others = 0
    /\ call = NoneYet
    /\ saved = NotSaved

\* The variant a word decodes to.
OpOf(c) == IF c < 0 THEN "none" ELSE from_code(c, REG_SIZE).op

\* What the collaborators may answer.
DrawResults == {"Collision", "Free"}

RandVals == {0, 85, 254}

NoEnv == [rnd |-> 0, drawn |-> "Free"]

\* The machine becomes out.m, the caller gets out.res.
Commit(out) ==
    /\ mem' = out.m.mem /\ reg' = out.m.reg /\ ind' = out.m.ind
    /\ cnt' = out.m.cnt /\ dtm' = out.m.dtm /\ stm' = out.m.stm
    /\ stk' = out.m.stk /\ spt' = out.m.spt /\ key' = out.m.key
    /\ dsp' = out.m.dsp
    /\ res' = out.res
    /\ acc' = out.acc

\* One call recv_opcode(&c).
Recv(c, env) ==
    /\ Commit(recv_opcode(Emu, build, c, env))
    /\ code' = c
    /\ old' = Emu
    /\ called' = IF OpOf(code) = "Flow2NNN" /\ res.kind = "Ok"
                 THEN [code |-> code, cnt |-> old.cnt, spt |-> old.spt]
                 ELSE NotCalled
    /\ others' = IF OpOf(c) \in {"Flow2NNN", "Flow00EE"} THEN others ELSE others + 1
    /\ call' = [fn |-> "recv_opcode", args |-> <<c, env>>]
    /\ saved' = IF OpOf(c) = "MemFX55" /\ res' = OkRes
              THEN [code |-> c, reg |-> reg]
              ELSE saved
    /\ UNCHANGED build

\* DisplayEmu::set_display: the machine gets a display on which nothing has
\* been called.
set_display(m) == [m EXCEPT !.dsp = NoCall]

\* What the host gets from a helper it calls itself: a helper that unwraps
\* inside returns Ok(val) or panics, one that checks returns Ok(()) or its
\* typed error with the refused index.
FromRet(r) ==
    Outcome(r.m, IF r.panic = "" THEN Returns(r.val) ELSE PanicRes(r.panic), r.acc)

FromRes(r, variant) ==
    Outcome(r.m, IF r.ok THEN OkRes ELSE ErrRes(variant, r.val), {})

\* A getter returns Ok(val) or its typed error.
FromGet(r, variant) ==
    Outcome(r.m, IF r.ok THEN Returns(r.val) ELSE ErrRes(variant, r.val), {})

\* One call by the host of a public method other than recv_opcode.
Call(fn, args, out) ==
    /\ Commit(out)
    /\ call' = [fn |-> fn, args |-> args]
    /\ code' = -1
    /\ old' = Emu
    /\ called' = NotCalled
    /\ UNCHANGED <<build, saved>>

\* ------------------------------------------- Spec: control flow and stack
\* A fresh machine receives any sequence of CALL and RET, mixed with at most
\* MaxOther other calls: other instructions, and the stack methods of the
\* Cpu trait called by the host itself (spt_inc, spt_dec, stk_pop, stk_push).

MaxOther == 2

CallTargets == {768}

JumpTargets == {512, 513}

IndexedTargets == {4095}

FlowRegs == {0}

FlowBytes == {255}

FlowUnknown == {0}

Init == Start(new)

\* A panic ends the process: nothing follows it.
Running == res.kind # "Panic"

Budget == Running /\ others < MaxOther

DoFlow2NNN == Running /\ \E n \in CallTargets : Recv(8192 + n, NoEnv)

DoFlow00EE == Running /\ Recv(238, NoEnv)

DoFlow1NNN == Budget /\ \E n \in JumpTargets : Recv(4096 + n, NoEnv)

DoFlowBNNN == Budget /\ \E n \in IndexedTargets : Recv(45056 + n, NoEnv)

DoConst6XNN == Budget /\ \E x \in FlowRegs, v \in FlowBytes : Recv(24576 + 256 * x + v, NoEnv)

DoCond3XNN == Budget /\ \E x \in FlowRegs, v \in FlowBytes : Recv(12288 + 256 * x + v, NoEnv)

DoKeyOpFX0A == Budget /\ \E x \in FlowRegs : Recv(61450 + 256 * x, NoEnv)

DoUnknown == Budget /\ \E c \in FlowUnknown : Recv(c, NoEnv)

Next ==
    \/ DoFlow2NNN
    \/ DoFlow00EE
    \/ DoFlow1NNN
    \/ DoFlowBNNN
    \/ DoConst6XNN
    \/ DoCond3XNN
    \/ DoKeyOpFX0A
    \/ DoUnknown
    \* spt_inc()
    \/ /\ Budget
       /\ Call("spt_inc", <<>>, FromRet(spt_inc(Emu)))
       /\ others' = others + 1
    \* spt_dec()
    \/ /\ Budget
       /\ Call("spt_dec", <<>>, FromRet(spt_dec(Emu, build)))
       /\ others' = others + 1
    \* stk_pop()
    \/ /\ Budget
       /\ Call("stk_pop", <<>>, FromRet(stk_pop(Emu, build)))
       /\ others' = others + 1
    \* stk_push(address)
    \/ /\ Budget
       /\ \E a \in CallTargets : Call("stk_push", <<a>>, FromRet(stk_push(Emu, a)))
       /\ others' = others + 1

Spec == Init /\ [][Next]_vars

\* ------------------------------------------ SpecStep: one instruction
\* A machine whose registers, index register and program counter hold
\* values that 6XNN, ANNN and 1NNN can put there receives one instruction.

StepBytes == {0, 1, 127, 128, 255}

StepFlags == {0, 1, 128}

StepInds == {0, 768, 4094, 4095}

StepCnts == {0, 512}

\* The register pairs (X, Y) and the registers X of the instruction.
StepPairs == {<<0, 1>>, <<1, 1>>, <<0, 15>>, <<15, 1>>, <<15, 15>>}

StepRegs == {0, 1, 15}

StepMachines ==
    {[new EXCEPT !.reg = [i \in 0..(REG_SIZE - 1) |->
                             CASE i = 0 -> v0 [] i = 1 -> v1 [] i = 15 -> vf [] OTHER -> 0],
                 !.ind = i0,
                 !.cnt = c0] :
        v0 \in StepBytes, v1 \in StepBytes, vf \in StepFlags,
        i0 \in StepInds, c0 \in StepCnts}

InitStep == \E m \in StepMachines : Start(m)

\* Nothing has been executed yet.
Fresh == call.fn = "none"

\* The word with first nibble a, then X, Y and last nibble d.
WordXY(a, xy, d) == 4096 * a + 256 * xy[1] + 16 * xy[2] + d

StepMath8XY4 == Fresh /\ \E xy \in StepPairs : Recv(WordXY(8, xy, 4), NoEnv)

StepMath8XY5 == Fresh /\ \E xy \in StepPairs : Recv(WordXY(8, xy, 5), NoEnv)

StepMath8XY7 == Fresh /\ \E xy \in StepPairs : Recv(WordXY(8, xy, 7), NoEnv)

StepMemANNN == Fresh /\ \E n \in StepInds : Recv(40960 + n, NoEnv)

StepMemFX1E == Fresh /\ \E x \in StepRegs : Recv(61470 + 256 * x, NoEnv)

StepMemFX29 == Fresh /\ \E x \in StepRegs : Recv(61481 + 256 * x, NoEnv)

\* 0x0000, 0x0123, 0x8008, 0xE000, 0xF0FF, 0xFFFF
StepUnknownWords == {0, 291, 32776, 57344, 61695, 65535}

StepUnknown == Fresh /\ \E c \in StepUnknownWords : Recv(c, NoEnv)

NextStep ==
    \/ StepMath8XY4
    \/ StepMath8XY5
    \/ StepMath8XY7
    \/ StepMemANNN
    \/ StepMemFX1E
    \/ StepMemFX29
    \/ StepUnknown

SpecStep == InitStep /\ [][NextStep]_vars

\* ------------------------------- SpecMem: one memory instruction
\* A machine whose registers and index register hold values that 6XNN and
\* ANNN can put there, over a memory that is zero or holds bytes written
\* around I, receives one of FX33, FX55, FX65.

MemV0 == 0..255

MemV1 == {0, 1, 253}

MemInds == {0, 768, 4093, 4094, 4095}

\* The cells from i0 - 1 to i0 + 17 hold 0xAA.
Filled(i0) == [a \in ((i0 - 1)..(i0 + 17)) \cap (0..(MEM_SIZE - 1)) |-> 170]

MemMachines ==
    {[new EXCEPT !.reg = [i \in 0..(REG_SIZE - 1) |->
                             CASE i = 0 -> v0 [] i = 1 -> v1 [] OTHER -> 16 + i],
                 !.ind = i0,
                 !.mem = IF full THEN Filled(i0) ELSE new.mem] :
        v0 \in MemV0, v1 \in MemV1, i0 \in MemInds, full \in BOOLEAN}

InitMem == \E m \in MemMachines : Start(m)

MemBcdFX33 == Fresh /\ \E x \in StepRegs : Recv(61491 + 256 * x, NoEnv)

MemMemFX55 == Fresh /\ \E x \in StepRegs : Recv(61525 + 256 * x, NoEnv)

MemMemFX65 == Fresh /\ \E x \in StepRegs : Recv(61541 + 256 * x, NoEnv)

NextMem ==
    \/ MemBcdFX33
    \/ MemMemFX55
    \/ MemMemFX65

SpecMem == InitMem /\ [][NextMem]_vars

\* ------------------------------- SpecRound: store, overwrite, load
\* FX55 with X, then at most MaxWrites 6XNN writes into V[0..=X], then FX65
\* with the same X.

MaxWrites == 2

RoundBytes == {0, 1, 2, 255}

RoundInds == {768, 4094}

RoundRegs == {0, 1}

RoundMachines ==
    {[new EXCEPT !.reg = [i \in 0..(REG_SIZE - 1) |->
                             CASE i = 0 -> v0 [] i = 1 -> v1 [] OTHER -> 0],
                 !.ind = i0,
                 !.mem = IF full THEN Filled(i0) ELSE new.mem] :
        v0 \in RoundBytes, v1 \in RoundBytes, i0 \in RoundInds, full \in BOOLEAN}

InitRound == \E m \in RoundMachines : Start(m)

\* An FX55 has returned Ok and no FX65 has followed it yet.
Stored == Running /\ saved.code # -1 /\ OpOf(code) # "MemFX65"

RoundMemFX55 == Fresh /\ \E x \in RoundRegs : Recv(61525 + 256 * x, NoEnv)

RoundConst6XNN ==
    /\ Stored
    /\ others < 1 + MaxWrites
    /\ \E x \in 0..get_x(saved.code, REG_SIZE), v \in RoundBytes :
          Recv(24576 + 256 * x + v, NoEnv)

RoundMemFX65 == Stored /\ Recv(61541 + 256 * get_x(saved.code, REG_SIZE), NoEnv)

NextRound ==
    \/ RoundMemFX55
    \/ RoundConst6XNN
    \/ RoundMemFX65

SpecRound == InitRound /\ [][NextRound]_vars

\* ------------------------------- SpecHost: the host's own method calls
\* A fresh machine receives at most MaxOther calls, each one of the public
\* methods of the Cpu, Mem and DisplayEmu traits called by the host itself,
\* or one of the instructions CLS, CALL and LD V0.

\* The (index, value) pairs of the host's reg_put and mem_put calls, the
\* values of its reg_put_vf calls and the indexes of its getter calls.
RegPuts == {<<0, 255>>, <<5, 7>>, <<16, 7>>}

MemPuts == {<<3, 3>>, <<5, 7>>, <<4096, 7>>}

FlagPuts == {1}

RegGets == {0, 5, 16}

MemGets == {3, 5, 4096}

NextHost ==
    \* Display00E0
    \/ /\ Budget
       /\ Recv(224, NoEnv)
    \* Flow2NNN
    \/ /\ Budget
       /\ \E n \in CallTargets : Recv(8192 + n, NoEnv)
    \* Const6XNN
    \/ /\ Budget
       /\ \E x \in FlowRegs, v \in FlowBytes : Recv(24576 + 256 * x + v, NoEnv)
    \* skip_next_instruction()
    \/ /\ Budget
       /\ Call("skip_next_instruction", <<>>, FromRet(skip_next_instruction(Emu, build)))
       /\ others' = others + 1
    \* reg_get(&i)
    \/ /\ Budget
       /\ \E i \in RegGets :
             Call("reg_get", <<i>>, FromGet(reg_get(Emu, i), "InvalidRegisterIndex"))
       /\ others' = others + 1
    \* reg_put(&i, v)
    \/ /\ Budget
       /\ \E p \in RegPuts :
             Call("reg_put", p, FromRes(reg_put(Emu, p[1], p[2]), "InvalidRegisterIndex"))
       /\ others' = others + 1
    \* reg_put_vf(v)
    \/ /\ Budget
       /\ \E v \in FlagPuts : Call("reg_put_vf", <<v>>, Okay(reg_put_vf(Emu, v)))
       /\ others' = others + 1
    \* spt_get()
    \/ /\ Budget
       /\ Call("spt_get", <<>>, Outcome(Emu, Returns(spt_get(Emu)), {}))
       /\ others' = others + 1
    \* spt_inc()
    \/ /\ Budget
       /\ Call("spt_inc", <<>>, FromRet(spt_inc(Emu)))
       /\ others' = others + 1
    \* spt_dec()
    \/ /\ Budget
       /\ Call("spt_dec", <<>>, FromRet(spt_dec(Emu, build)))
       /\ others' = others + 1
    \* stk_get()
    \/ /\ Budget
       /\ Call("stk_get", <<>>, FromRet(stk_get(Emu)))
       /\ others' = others + 1
    \* stk_pop()
    \/ /\ Budget
       /\ Call("stk_pop", <<>>, FromRet(stk_pop(Emu, build)))
       /\ others' = others + 1
    \* stk_push(address)
    \/ /\ Budget
       /\ \E a \in CallTargets : Call("stk_push", <<a>>, FromRet(stk_push(Emu, a)))
       /\ others' = others + 1
    \* mem_get(&i)
    \/ /\ Budget
       /\ \E i \in MemGets :
             Call("mem_get", <<i>>, FromGet(mem_get(Emu, i), "AccessViolation"))
       /\ others' = others + 1
    \* mem_put(&i, v)
    \/ /\ Budget
       /\ \E p \in MemPuts :
             Call("mem_put", p, FromRes(mem_put(Emu, p[1], p[2]), "AccessViolation"))
       /\ others' = others + 1
    \* set_display(display)
    \/ /\ Budget
       /\ Call("set_display", <<>>, Okay(set_display(Emu)))
       /\ others' = others + 1

SpecHost == Init /\ [][NextHost]_vars

\* ------------------------------------ SpecAny: any one instruction
\* A machine that earlier instructions have left with values in V0, V1, VF,
\* I, PC and the delay timer, with or without a pending CALL and bytes in
\* memory around I, receives one word of any of the 35 variants or an
\* unknown word.  No function of the source sets a key latch: none is set.

AnyBytes == {0, 1, 15, 128, 255}

AnyConsts == {0, 1, 255}

AnyAddrs == {768, 4095}

AnyInds == {0, 768, 4095}

AnyHeights == {0, 5, 15}

AnyMachines ==
    {[new EXCEPT !.reg = [i \in 0..(REG_SIZE - 1) |->
                             CASE i = 0 -> v0 [] i = 1 -> v1 [] i = 15 -> vf [] OTHER -> 0],
                 !.ind = i0,
                 !.cnt = c0,
                 !.dtm = 60,
                 !.mem = IF full THEN Filled(i0) ELSE new.mem,
                 !.stk = IF deep THEN [new.stk EXCEPT ![1] = 768] ELSE new.stk,
                 !.spt = IF deep THEN 1 ELSE 0] :
        v0 \in AnyBytes, v1 \in AnyConsts, vf \in StepFlags,
        i0 \in AnyInds, c0 \in StepCnts, full \in BOOLEAN, deep \in BOOLEAN}

InitAny == \E m \in AnyMachines : Start(m)

NextAny ==
    \* Display00E0
    \/ /\ Fresh
       /\ Recv(224, NoEnv)
    \* Flow00EE
    \/ /\ Fresh
       /\ Recv(238, NoEnv)
    \* Flow1NNN
    \/ /\ Fresh
       /\ \E n \in AnyAddrs : Recv(4096 + n, NoEnv)
    \* Flow2NNN
    \/ /\ Fresh
       /\ \E n \in AnyAddrs : Recv(8192 + n, NoEnv)
    \* Cond3XNN
    \/ /\ Fresh
       /\ \E x \in StepRegs, v \in AnyConsts : Recv(12288 + 256 * x + v, NoEnv)
    \* Cond4XNN
    \/ /\ Fresh
       /\ \E x \in StepRegs, v \in AnyConsts : Recv(16384 + 256 * x + v, NoEnv)
    \* Cond5XY0
    \/ /\ Fresh
       /\ \E xy \in StepPairs : Recv(WordXY(5, xy, 0), NoEnv)
    \* Const6XNN
    \/ /\ Fresh
       /\ \E x \in StepRegs, v \in AnyConsts : Recv(24576 + 256 * x + v, NoEnv)
    \* Const7XNN
    \/ /\ Fresh
       /\ \E x \in StepRegs, v \in AnyConsts : Recv(28672 + 256 * x + v, NoEnv)
    \* Assign8XY0
    \/ /\ Fresh
       /\ \E xy \in StepPairs : Recv(WordXY(8, xy, 0), NoEnv)
    \* BitOp8XY1
    \/ /\ Fresh
       /\ \E xy \in StepPairs : Recv(WordXY(8, xy, 1), NoEnv)
    \* BitOp8XY2
    \/ /\ Fresh
       /\ \E xy \in StepPairs : Recv(WordXY(8, xy, 2), NoEnv)
    \* BitOp8XY3
    \/ /\ Fresh
       /\ \E xy \in StepPairs : Recv(WordXY(8, xy, 3), NoEnv)
    \* Math8XY4
    \/ /\ Fresh
       /\ \E xy \in StepPairs : Recv(WordXY(8, xy, 4), NoEnv)
    \* Math8XY5
    \/ /\ Fresh
       /\ \E xy \in StepPairs : Recv(WordXY(8, xy, 5), NoEnv)
    \* BitOp8XY6
    \/ /\ Fresh
       /\ \E xy \in StepPairs : Recv(WordXY(8, xy, 6), NoEnv)
    \* Math8XY7
    \/ /\ Fresh
       /\ \E xy \in StepPairs : Recv(WordXY(8, xy, 7), NoEnv)
    \* BitOp8XYE
    \/ /\ Fresh
       /\ \E xy \in StepPairs : Recv(WordXY(8, xy, 14), NoEnv)
    \* Cond9XY0
    \/ /\ Fresh
       /\ \E xy \in StepPairs : Recv(WordXY(9, xy, 0), NoEnv)
    \* MemANNN
    \/ /\ Fresh
       /\ \E n \in AnyAddrs : Recv(40960 + n, NoEnv)
    \* FlowBNNN
    \/ /\ Fresh
       /\ \E n \in AnyAddrs : Recv(45056 + n, NoEnv)
    \* RandCXNN
    \/ /\ Fresh
       /\ \E x \in StepRegs, v \in AnyConsts, r \in RandVals : Recv(49152 + 256 * x + v, [rnd |-> r, drawn |-> "Free"])
    \* DisplayDXYN
    \/ /\ Fresh
       /\ \E xy \in StepPairs, n \in AnyHeights, d \in DrawResults : Recv(WordXY(13, xy, n), [rnd |-> 0, drawn |-> d])
    \* KeyOpEX9E
    \/ /\ Fresh
       /\ \E x \in StepRegs : Recv(57502 + 256 * x, NoEnv)
    \* KeyOpEXA1
    \/ /\ Fresh
       /\ \E x \in StepRegs : Recv(57505 + 256 * x, NoEnv)
    \* TimerFX07
    \/ /\ Fresh
       /\ \E x \in StepRegs : Recv(61447 + 256 * x, NoEnv)
    \* KeyOpFX0A
    \/ /\ Fresh
       /\ \E x \in StepRegs : Recv(61450 + 256 * x, NoEnv)
    \* TimerFX15
    \/ /\ Fresh
       /\ \E x \in StepRegs : Recv(61461 + 256 * x, NoEnv)
    \* SoundFX18
    \/ /\ Fresh
       /\ \E x \in StepRegs : Recv(61464 + 256 * x, NoEnv)
    \* MemFX1E
    \/ /\ Fresh
       /\ \E x \in StepRegs : Recv(61470 + 256 * x, NoEnv)
    \* MemFX29
    \/ /\ Fresh
       /\ \E x \in StepRegs : Recv(61481 + 256 * x, NoEnv)
    \* BcdFX33
    \/ /\ Fresh
       /\ \E x \in StepRegs : Recv(61491 + 256 * x, NoEnv)
    \* MemFX55
    \/ /\ Fresh
       /\ \E x \in StepRegs : Recv(61525 + 256 * x, NoEnv)
    \* MemFX65
    \/ /\ Fresh
       /\ \E x \in StepRegs : Recv(61541 + 256 * x, NoEnv)
    \* Unknown
    \/ /\ Fresh
       /\ \E c \in StepUnknownWords : Recv(c, NoEnv)
    \* set_display(display), after the instruction
    \/ /\ Running
       /\ call.fn = "recv_opcode"
       /\ Call("set_display", <<>>, Okay(set_display(Emu)))
       /\ others' = others + 1

SpecAny == InitAny /\ [][NextAny]_vars

\* ------------------------------------ SpecKeypad: the key opcodes
\* EX9E and EXA1 are functions of V[X] and of the latches Emu.key.  No
\* function of the source writes Emu.key (Emu::new clears it), so the
\* latches are inputs here: none set, one set, or all set.

KeyCodes == {0, 1, 2, 15, 16, 255}

KeyLatches ==
    {[i \in 0..(KEY_SIZE - 1) |-> i \in on] :
        on \in {{}, {0}, {1}, {14}, {15}, 0..(KEY_SIZE - 1)}}

KeypadMachines ==
    {[new EXCEPT !.reg = [i \in 0..(REG_SIZE - 1) |->
                             CASE i = 0 -> v0 [] i = 1 -> v1 [] OTHER -> 0],
                 !.cnt = 512,
                 !.key = k] :
        v0 \in KeyCodes, v1 \in KeyCodes, k \in KeyLatches}

InitKeypad == \E m \in KeypadMachines : Start(m)

KeypadKeyOpEX9E == Fresh /\ \E x \in RoundRegs : Recv(57502 + 256 * x, NoEnv)

KeypadKeyOpEXA1 == Fresh /\ \E x \in RoundRegs : Recv(57505 + 256 * x, NoEnv)

NextKeypad ==
    \/ KeypadKeyOpEX9E
    \/ KeypadKeyOpEXA1

SpecKeypad == InitKeypad /\ [][NextKeypad]_vars

\* ---------------------------------------- calls of the other functions
\* The functions that leave the machine alone are applied to arguments; the
\* state records the call and what it returned.

\* A returned value.
\* The call fn(args) returns r and changes nothing.
Apply(fn, args, r) ==
    /\ call' = [fn |-> fn, args |-> args]
    /\ res' = r
    /\ UNCHANGED <<mem, reg, ind, cnt, dtm, stm, stk, spt, key, dsp,
                   build, code, old, called, acc, others, saved>>

\* Nothing has been called yet.
Uncalled == call.fn = "none"

\* ------------------------------------------- SpecDecode: Oper::from_code
\* Every 16-bit word is decoded with the register width recv_opcode passes.

DecodeWords == 0..(U16 - 1)

\* What a call of from_code gives: the OperCode, or the panic of get_x/get_y.
Decoded(o) == IF o.op = "panic" THEN PanicRes("Register overflow!") ELSE Returns(o)

DoFromCode ==
    /\ Uncalled
    /\ \E c \in DecodeWords :
        Apply("from_code", <<c, REG_SIZE>>, Decoded(from_code(c, REG_SIZE)))

NextDecode == DoFromCode

SpecDecode == Init /\ [][NextDecode]_vars

\* ------------------------------------- SpecRange: ranges of the memory
\* One call of range_get_start_end, validate_range, mem_read or mem_write on
\* a memory that is zero or holds bytes in its first cells.

RangeStarts == {Unbounded, Included(0), Included(3), Included(5),
                Included(4095), Included(4096),
                Excluded(3), Excluded(usize_dec(0))}

RangeEnds == {Unbounded, Excluded(0), Excluded(3), Excluded(5), Excluded(4096),
              Excluded(4097), Included(5), Included(4095), Included(4096)}

Ranges == {Range(sb, eb) : sb \in RangeStarts, eb \in RangeEnds}

Slices == {<<>>, <<3>>, <<3, 4>>, <<1, 2, 3>>}

RangeMachines == {new, [new EXCEPT !.mem = Filled(1)]}

InitRange == \E m \in RangeMachines : Start(m)

DoRangeGetStartEnd ==
    /\ Uncalled
    /\ \E r \in Ranges : Apply("range_get_start_end", <<r>>, range_get_start_end(build, r))

DoValidateRange ==
    /\ Uncalled
    /\ \E r \in Ranges : Apply("validate_range", <<r>>, validate_range(build, r))

DoMemRead ==
    /\ Uncalled
    /\ \E r \in Ranges : Apply("mem_read", <<r>>, mem_read(Emu, build, r).res)

DoMemWrite ==
    /\ Uncalled
    /\ \E r \in Ranges, sl \in Slices :
          /\ Commit(mem_write(Emu, build, r, sl))
          /\ call' = [fn |-> "mem_write", args |-> <<r, sl>>]
    /\ old' = Emu
    /\ UNCHANGED <<build, code, called, others, saved>>

NextRange ==
    \/ DoRangeGetStartEnd
    \/ DoValidateRange
    \/ DoMemRead
    \/ DoMemWrite

SpecRange == InitRange /\ [][NextRange]_vars

\* ------------------------------------------ SpecKeys: key conversions
\* One call of key_from_u8 on a byte, or of key_to_u8 or key_to_index on a
\* Key.

KeyBytes == 0..(U8 - 1)

DoKeyFromU8 ==
    /\ Uncalled
    /\ \E n \in KeyBytes : Apply("key_from_u8", <<n>>, Returns(key_from_u8(n)))

DoKeyToU8 ==
    /\ Uncalled
    /\ \E k \in Keys : Apply("key_to_u8", <<k>>, Returns(key_to_u8(k)))

DoKeyToIndex ==
    /\ Uncalled
    /\ \E k \in Keys : Apply("key_to_index", <<k>>, Returns(key_to_index(k)))

NextKeys ==
    \/ DoKeyFromU8
    \/ DoKeyToU8
    \/ DoKeyToIndex

SpecKeys == Init /\ [][NextKeys]_vars

\* -------------------------------------------------------------- claims

\* The last call executed variant op and returned Ok.
Did(op) == OpOf(code) = op /\ res.kind = "Ok"

\* The operands of the last word.
X == get_x(code, REG_SIZE)

Y == get_y(code, REG_SIZE)

VF == REG_SIZE - 1

\* C1: a CALL followed immediately by a RET leaves SP as it was before the
\* CALL and PC at the value it held when the CALL executed.
C1_CallRetRestores ==
    (Did("Flow00EE") /\ called.code # -1) =>
        (spt = called.spt /\ cnt = called.cnt)

\* C2: after CALL NNN, PC = NNN and the next stk_pop returns the PC the
\* machine held when the CALL executed.
C2_CallPushesPc ==
    Did("Flow2NNN") =>
        (cnt = get_nnn(code) /\ stk_pop(Emu, build).val = old.cnt)

\* C3: the stack holds 16 return addresses: a CALL succeeds whenever SP is
\* below 16, fails with StackOverflow exactly when SP is 16, and a
\* successful push indexes stack[SP] for the SP it found, then increments SP.
C3_StackHoldsSixteen ==
    (OpOf(code) = "Flow2NNN") =>
        /\ (res.kind = "Ok") <=> (old.spt < STK_SIZE)
        /\ (res.kind # "Ok") => (res.variant = "StackOverflow")
        /\ (res.kind = "Ok") => (acc = {old.spt} /\ spt = old.spt + 1)

\* C4: a RET at SP = 0 returns Err(StackUnderflow) to the caller and leaves
\* PC, SP and the stack as they were.
C4_RetUnderflowIsErr ==
    (OpOf(code) = "Flow00EE" /\ old.spt = 0) =>
        /\ res.kind = "Err"
        /\ res.variant = "StackUnderflow"
        /\ cnt = old.cnt /\ spt = old.spt /\ stk = old.stk

\* C5: after any sequence of calls from a fresh machine 0 <= SP <= 16, and
\* every stack slot a call indexes lies in 0..15.
C5_SpInRange ==
    /\ spt \in 0..STK_SIZE
    /\ acc \subseteq 0..(STK_SIZE - 1)

\* C5's case: CALLs mixed with other instructions have filled the stack to
\* its last slot.
C5_Witness ==
    /\ Did("Flow2NNN")
    /\ others > 0
    /\ spt = STK_SIZE - 1
    /\ acc = {STK_SIZE - 1}

\* C6: after any sequence of executed opcodes PC is even and below 4096.
C6_PcEvenInRange == cnt % 2 = 0 /\ cnt < MEM_SIZE

\* C7: after any executed opcode the index register lies in 0..4095.
C7_IndexInRange == ind \in 0..(MEM_SIZE - 1)

\* C8: 8XY4 with X # F completes and leaves V[X] = (V[X] + V[Y]) mod 256 and
\* VF = 1 if the unreduced sum exceeds 255, else 0.
C8_AddSetsCarry ==
    (OpOf(code) = "Math8XY4" /\ X # VF) =>
        /\ res.kind = "Ok"
        /\ reg[X] = (old.reg[X] + old.reg[Y]) % U8
        /\ reg[VF] = IF old.reg[X] + old.reg[Y] > 255 THEN 1 ELSE 0

\* C9: 8XY5 with X # F completes and leaves V[X] = (V[X] - V[Y]) mod 256 and
\* VF = 1 if V[X] >= V[Y] as unsigned bytes, else 0.
C9_SubSetsNotBorrow ==
    (OpOf(code) = "Math8XY5" /\ X # VF) =>
        /\ res.kind = "Ok"
        /\ reg[X] = (old.reg[X] - old.reg[Y] + U8) % U8
        /\ reg[VF] = IF old.reg[X] >= old.reg[Y] THEN 1 ELSE 0

\* C10: 8XY7 with X # F completes and leaves V[X] = (V[Y] - V[X]) mod 256
\* and VF = 1 if V[Y] >= V[X] as unsigned bytes, else 0.
C10_SubnSetsNotBorrow ==
    (OpOf(code) = "Math8XY7" /\ X # VF) =>
        /\ res.kind = "Ok"
        /\ reg[X] = (old.reg[Y] - old.reg[X] + U8) % U8
        /\ reg[VF] = IF old.reg[Y] >= old.reg[X] THEN 1 ELSE 0

\* C11: after an 8XY4, 8XY5 or 8XY7 that returned, for every X and Y
\* (X = F and Y = F included), VF is 0 or 1.
C11_FlagIsBit ==
    (res.kind = "Ok" /\ OpOf(code) \in {"Math8XY4", "Math8XY5", "Math8XY7"}) =>
        reg[VF] \in {0, 1}

\* C12: FX0A with no key latched returns, changes no register and leaves PC
\* exactly 2 below the PC it found, whatever that PC was; with a key K
\* latched it sets V[X] = key_to_u8(K) and leaves PC alone.
C12_WaitKeyRewinds ==
    (OpOf(code) = "KeyOpFX0A") =>
        IF any_key_pressed(old) = "None"
        THEN res.kind = "Ok" /\ reg = old.reg /\ cnt + PRG_INCR = old.cnt
        ELSE /\ res.kind = "Ok"
             /\ reg[X] = key_to_u8(any_key_pressed(old))
             /\ cnt = old.cnt

\* The cells that differ between two memories are among those of d.
SameOutside(ma, mb, d) ==
    \A a \in (DOMAIN ma \cup DOMAIN mb) \ d : MemAt(ma, a) = MemAt(mb, a)

\* C13: FX55 with operand X (the index in the word) and I + X < 4096
\* returns, stores V[0]..V[X] into mem[I]..mem[I+X] and changes no other
\* cell, no register and not I; FX65 loads V[0]..V[X] from mem[I]..mem[I+X]
\* and changes no other register, no memory and not I.
C13_StoreLoadByIndex ==
    /\ (OpOf(code) = "MemFX55" /\ old.ind + X < MEM_SIZE) =>
          /\ res.kind = "Ok"
          /\ \A i \in 0..X : MemAt(mem, old.ind + i) = old.reg[i]
          /\ SameOutside(mem, old.mem, old.ind..(old.ind + X))
          /\ reg = old.reg /\ ind = old.ind
    /\ (OpOf(code) = "MemFX65" /\ old.ind + X < MEM_SIZE) =>
          /\ res.kind = "Ok"
          /\ \A i \in 0..(REG_SIZE - 1) :
                reg[i] = IF i <= X THEN MemAt(old.mem, old.ind + i) ELSE old.reg[i]
          /\ mem = old.mem /\ ind = old.ind

\* C14: FX55 with X and I + X < 4096, then writes into V[0..=X] only, then
\* FX65 with the same X: the FX65 returns and V[0..=X] hold the values they
\* had when the FX55 executed.
C14_StoreLoadRoundTrip ==
    (OpOf(code) = "MemFX65" /\ saved.code # -1) =>
        /\ res.kind = "Ok"
        /\ \A i \in 0..X : reg[i] = saved.reg[i]

\* C15: FX33 with v = V[X] and I + 2 < 4096 returns and leaves
\* mem[I] = v / 100, mem[I+1] = (v / 10) mod 10, mem[I+2] = v mod 10, each a
\* decimal digit and together v; no other cell, no register and not I change.
C15_BcdDigits ==
    (OpOf(code) = "BcdFX33" /\ old.ind + 2 < MEM_SIZE) =>
        /\ res.kind = "Ok"
        /\ MemAt(mem, old.ind) = old.reg[X] \div 100
        /\ MemAt(mem, old.ind + 1) = (old.reg[X] \div 10) % 10
        /\ MemAt(mem, old.ind + 2) = old.reg[X] % 10
        /\ \A i \in 0..2 : MemAt(mem, old.ind + i) \in 0..9
        /\ 100 * MemAt(mem, old.ind) + 10 * MemAt(mem, old.ind + 1)
              + MemAt(mem, old.ind + 2) = old.reg[X]
        /\ SameOutside(mem, old.mem, old.ind..(old.ind + 2))
        /\ reg = old.reg /\ ind = old.ind

\* C15's case: FX33 of 253 at the last three cells of a memory that held
\* other bytes there.
C15_Witness ==
    /\ Did("BcdFX33")
    /\ old.reg[X] = 253
    /\ old.ind = MEM_SIZE - 3
    /\ MemAt(old.mem, old.ind) = 170
    /\ MemAt(mem, old.ind) = 2
    /\ MemAt(mem, old.ind + 1) = 5
    /\ MemAt(mem, old.ind + 2) = 3

\* C16: a word that decodes to Unknown makes recv_opcode return the error
\* InvalidOperationCode carrying that word, and leaves every field of the
\* machine as it was.
C16_UnknownIsErr ==
    (OpOf(code) = "Unknown") =>
        /\ res = ErrRes("InvalidOperationCode", code)
        /\ Emu = old

\* C16's case: the word 0x8008 received by a machine with registers, I and
\* PC set.
C16_Witness ==
    /\ OpOf(code) = "Unknown"
    /\ code = 32776
    /\ res.kind = "Err" /\ res.arg = 32776
    /\ old.reg[0] = 255 /\ old.ind = 4095 /\ old.cnt = 512

\* The words of the opcode table: its 35 patterns, 5XY0 and 9XY0 with the
\* low nibble 0.
InTable(c) ==
    LET a == (c \div 4096) % 16
        lo == c % 256
        d == c % 16
    IN \/ c \in {224, 238}
       \/ a \in {1, 2, 3, 4, 6, 7, 10, 11, 12, 13}
       \/ a \in {5, 9} /\ d = 0
       \/ a = 8 /\ d \in {0, 1, 2, 3, 4, 5, 6, 7, 14}
       \/ a = 14 /\ lo \in {158, 161}
       \/ a = 15 /\ lo \in {7, 10, 21, 24, 30, 41, 51, 85, 101}

\* C17: from_code with register width 16 returns for every word (no
\* panic), and returns a variant other than Unknown exactly for the words of
\* the opcode table.
C17_DecoderMatchesTable ==
    (call.fn = "from_code") =>
        /\ res.kind = "Ok"
        /\ (res.arg.op # "Unknown") <=> InTable(call.args[1])

\* The range of the last call is start..end, ..end, start.. or .. : its
\* resolved bounds [ArgStart, ArgEnd).
HalfOpen ==
    /\ call.args[1].start_bound.kind \in {"Included", "Unbounded"}
    /\ call.args[1].end_bound.kind \in {"Excluded", "Unbounded"}

ArgStart == call.args[1].start_bound.i

ArgEnd ==
    IF call.args[1].end_bound.kind = "Unbounded" THEN MEM_SIZE
    ELSE call.args[1].end_bound.i

ValidRange == 0 <= ArgStart /\ ArgStart < ArgEnd /\ ArgEnd <= MEM_SIZE

\* The smaller of two numbers.
Min(a, b) == IF a <= b THEN a ELSE b

\* C18: mem_write(range, bytes) on a valid range [start, end) returns Ok for
\* every slice length, copies the first min(len(bytes), end - start) bytes to
\* mem[start..] and changes no other cell.
C18_WriteStaysInRange ==
    (call.fn = "mem_write" /\ HalfOpen /\ ValidRange) =>
        LET n == Min(Len(call.args[2]), ArgEnd - ArgStart)
        IN /\ res.kind = "Ok"
           /\ \A j \in 1..n : MemAt(mem, ArgStart + j - 1) = call.args[2][j]
           /\ SameOutside(mem, old.mem, ArgStart..(ArgStart + n - 1))

\* C19: mem_read(range) returns a slice of length end - start when
\* 0 <= start < end <= 4096 and the error AccessRangeViolation, as a value,
\* for every other range (past 4096, inverted, empty); validate_range
\* returns true exactly for the first group.
C19_ReadChecksRange ==
    /\ (call.fn = "mem_read" /\ HalfOpen) =>
          IF ValidRange
          THEN res.kind = "Ok" /\ Len(res.arg) = ArgEnd - ArgStart
          ELSE res.kind = "Err" /\ res.variant = "AccessRangeViolation"
    /\ (call.fn = "validate_range" /\ HalfOpen) =>
          res.kind = "Ok" /\ res.arg = ValidRange

\* C20: key_to_u8(key_from_u8(n)) is n for n in 1..15 and 0 for every other
\* byte, which key_from_u8 maps to Unknown; key_from_u8(key_to_u8(k)) = k
\* for every Key; key_to_index is None for Unknown and maps the 15 other
\* keys one-to-one onto 0..14.
C20_KeyConversions ==
    /\ (call.fn = "key_from_u8") =>
          IF call.args[1] \in 1..15
          THEN key_to_u8(res.arg) = call.args[1]
          ELSE res.arg = "Unknown" /\ key_to_u8(res.arg) = 0
    /\ (call.fn = "key_to_u8") => key_from_u8(res.arg) = call.args[1]
    /\ (call.fn = "key_to_index") =>
          /\ (call.args[1] = "Unknown") <=> (res.arg = -1)
          /\ (call.args[1] # "Unknown") => res.arg \in 0..14
          /\ \A k \in Keys \ {call.args[1]} : key_to_index(k) # res.arg
          /\ \A i \in 0..14 : \E k \in Keys : key_to_index(k) = i

\* C20's case: the byte 0x11, beyond the keys, has been converted.
C20_Witness ==
    /\ call.fn = "key_from_u8"
    /\ call.args[1] = 17
    /\ res.arg = "Unknown"
    /\ key_to_u8(res.arg) = 0

\* C21: the machine Emu::new returns has PC = 0x200, a glyph (five bytes,
\* not all zero) for each of the 16 digits at 0x000..0x04F, and every other
\* field zero or false.
C21_ResetState ==
    (call.fn = "none") =>
        /\ cnt = 512
        /\ \A g \in 0..15 : \E j \in 0..4 : MemAt(mem, 5 * g + j) # 0
        /\ \A a \in DOMAIN mem : a < 80
        /\ \A i \in 0..(REG_SIZE - 1) : reg[i] = 0
        /\ ind = 0 /\ spt = 0 /\ dtm = 0 /\ stm = 0
        /\ \A i \in 0..(STK_SIZE - 1) : stk[i] = 0
        /\ \A i \in 0..(KEY_SIZE - 1) : key[i] = FALSE

\* The variants that define the flag, and those that write a result to V[X]
\* (FX65 to V[0]..V[X]).
FlagOps == {"Math8XY4", "Math8XY5", "BitOp8XY6", "Math8XY7", "BitOp8XYE",
            "DisplayDXYN"}

DestOps == {"Const6XNN", "Const7XNN", "Assign8XY0", "BitOp8XY1", "BitOp8XY2",
            "BitOp8XY3", "RandCXNN", "TimerFX07", "KeyOpFX0A", "MemFX65"}

\* C22: an executed opcode that neither defines the flag nor has register F
\* as its destination leaves V[F] unchanged.
C22_FlagFrame ==
    (/\ res.kind = "Ok"
     /\ code # -1
     /\ OpOf(code) \notin FlagOps
     /\ ~(OpOf(code) \in DestOps /\ X = VF)) =>
        reg[VF] = old.reg[VF]

\* The condition of the skip opcode last executed, on the registers it
\* found.
SkipCondition ==
    CASE OpOf(code) = "Cond3XNN" -> old.reg[X] = get_nn(code)
      [] OpOf(code) = "Cond4XNN" -> old.reg[X] # get_nn(code)
      [] OpOf(code) = "Cond5XY0" -> old.reg[X] = old.reg[Y]
      [] OpOf(code) = "Cond9XY0" -> old.reg[X] # old.reg[Y]
      [] OTHER -> FALSE

\* C23: 3XNN, 4XNN, 5XY0 and 9XY0 return, add exactly 2 to PC when their
\* condition holds and nothing otherwise, and change no register, memory,
\* I, SP or stack.
C23_SkipAddsTwo ==
    (OpOf(code) \in {"Cond3XNN", "Cond4XNN", "Cond5XY0", "Cond9XY0"}) =>
        /\ res.kind = "Ok"
        /\ cnt = old.cnt + (IF SkipCondition THEN 2 ELSE 0)
        /\ reg = old.reg /\ mem = old.mem /\ ind = old.ind
        /\ spt = old.spt /\ stk = old.stk

\* C23's case: 9XY0 on two registers that differ has skipped from 0x200.
C23_Witness ==
    /\ Did("Cond9XY0")
    /\ old.reg[X] # old.reg[Y]
    /\ old.cnt = 512
    /\ cnt = 514

\* C24: DXYN calls draw with x = V[X], y = V[Y] and height N, then sets VF to
\* 1 if the display reported Collision and to 0 if it reported Free, and
\* changes no other register.
C24_DrawAtRegisters ==
    (OpOf(code) = "DisplayDXYN") =>
        /\ res.kind = "Ok"
        /\ dsp = [call |-> "draw", x |-> old.reg[X], y |-> old.reg[Y],
                  height |-> get_n(code)]
        /\ reg[VF] = IF call.args[2].drawn = "Collision" THEN 1 ELSE 0
        /\ \A i \in 0..(REG_SIZE - 2) : reg[i] = old.reg[i]

\* The latch of the key numbered n, as the opcode found it: keys 1..F are
\* latches 0..14, no other number names a key.
Latched(n) == IF n \in 1..15 THEN old.key[n - 1] ELSE FALSE

\* C25: EX9E returns and adds 2 to PC exactly when the latch of the key
\* numbered V[X] is set, EXA1 exactly when it is not; a V[X] of 0 or above
\* 0xF reads as not pressed whatever the latches hold.
C25_KeySkips ==
    /\ (OpOf(code) = "KeyOpEX9E") =>
          res.kind = "Ok" /\ cnt = old.cnt + (IF Latched(old.reg[X]) THEN 2 ELSE 0)
    /\ (OpOf(code) = "KeyOpEXA1") =>
          res.kind = "Ok" /\ cnt = old.cnt + (IF Latched(old.reg[X]) THEN 0 ELSE 2)

\* C25's case: EX9E has skipped on key F, the only latch set.
C25_Witness ==
    /\ Did("KeyOpEX9E")
    /\ old.reg[X] = 15
    /\ old.key[14] /\ ~old.key[15]
    /\ cnt = old.cnt + 2

\* C26: 8XYE with X # F returns with VF = the top bit of the V[X] it found,
\* as 0 or 1, and V[X] = (V[X] << 1) mod 256; 8XY6 with X # F returns with
\* VF = the low bit and V[X] = V[X] >> 1; V[Y] is not written.
C26_ShiftFlagIsBit ==
    /\ (OpOf(code) = "BitOp8XYE" /\ X # VF) =>
          /\ res.kind = "Ok"
          /\ reg[VF] = old.reg[X] \div 128
          /\ reg[X] = (old.reg[X] * 2) % U8
          /\ (Y \notin {X, VF}) => reg[Y] = old.reg[Y]
    /\ (OpOf(code) = "BitOp8XY6" /\ X # VF) =>
          /\ res.kind = "Ok"
          /\ reg[VF] = old.reg[X] % 2
          /\ reg[X] = old.reg[X] \div 2
          /\ (Y \notin {X, VF}) => reg[Y] = old.reg[Y]

\* The flag each arithmetic opcode defines, from the registers it found.
FlagOf ==
    CASE OpOf(code) = "Math8XY4" -> IF old.reg[X] + old.reg[Y] > 255 THEN 1 ELSE 0
      [] OpOf(code) = "Math8XY5" -> IF old.reg[X] >= old.reg[Y] THEN 1 ELSE 0
      [] OpOf(code) = "BitOp8XY6" -> old.reg[X] % 2
      [] OpOf(code) = "Math8XY7" -> IF old.reg[Y] >= old.reg[X] THEN 1 ELSE 0
      [] OpOf(code) = "BitOp8XYE" -> old.reg[X] \div 128
      [] OTHER -> 0

\* C27: after 8XY4, 8XY5, 8XY6, 8XY7 or 8XYE with X = F, V[F] holds the flag
\* computed from the operands as they were before the instruction, not the
\* arithmetic result.
C27_FlagWinsOverResult ==
    (/\ res.kind = "Ok"
     /\ OpOf(code) \in {"Math8XY4", "Math8XY5", "BitOp8XY6", "Math8XY7", "BitOp8XYE"}
     /\ X = VF) =>
        reg[VF] = FlagOf

\* C28: 7XNN with X # F returns, leaves V[X] = (V[X] + NN) mod 256 and does
\* not change VF.
C28_AddConstWraps ==
    (OpOf(code) = "Const7XNN" /\ X # VF) =>
        /\ res.kind = "Ok"
        /\ reg[X] = (old.reg[X] + get_nn(code)) % U8
        /\ reg[VF] = old.reg[VF]

\* The half-open bounds of the range of the last call: an absent start is 0,
\* an excluded start a is a + 1 (a start beyond the memory is left as it
\* is: it selects no cell either way), an absent end 4096, an inclusive end
\* b is b + 1.
HalfOpenStart ==
    CASE call.args[1].start_bound.kind = "Included" -> call.args[1].start_bound.i
      [] call.args[1].start_bound.kind = "Excluded" ->
            IF call.args[1].start_bound.i < MEM_SIZE
            THEN call.args[1].start_bound.i + 1
            ELSE call.args[1].start_bound.i
      [] call.args[1].start_bound.kind = "Unbounded" -> 0

HalfOpenEnd ==
    CASE call.args[1].end_bound.kind = "Included" -> call.args[1].end_bound.i + 1
      [] call.args[1].end_bound.kind = "Excluded" -> call.args[1].end_bound.i
      [] call.args[1].end_bound.kind = "Unbounded" -> MEM_SIZE

\* C29: for every form of a range that selects cells of the memory,
\* range_get_start_end returns its half-open bounds (start, end) with end
\* the last index + 1, so end - start is the number of cells selected.
C29_RangeResolvesHalfOpen ==
    (/\ call.fn = "range_get_start_end"
     /\ HalfOpenStart < HalfOpenEnd
     /\ HalfOpenEnd <= MEM_SIZE) =>
        /\ res.kind = "Ok"
        /\ res.arg = <<HalfOpenStart, HalfOpenEnd>>

\* C30: FX33, FX55 and FX65 return Ok or a typed error, never abort; after
\* an error none of the instruction's writes is visible; no cell outside
\* 0..4095 is touched.
C30_ErrorsAreTypedAndAtomic ==
    (OpOf(code) \in {"BcdFX33", "MemFX55", "MemFX65"}) =>
        /\ res.kind \in {"Ok", "Err"}
        /\ (res.kind = "Err") => (Emu = old)
        /\ \A a \in DOMAIN mem : a \in 0..(MEM_SIZE - 1)

====
